---- MODULE Spec2Model ----
(***************************************************************************)
(* TrueTrace vault: the encrypted event store, the Socket.IO sync hub, the *)
(* invite/share code registry and the client-side shared-event queue.      *)
(*                                                                         *)
(* The server is a single Node.js process.  A handler runs without         *)
(* interruption between two awaits; every await on a file-system promise   *)
(* (fs.readFile, fs.writeFile) is a point where other handlers run.  Each  *)
(* action below is one such uninterrupted piece of a handler.              *)
(***************************************************************************)
EXTENDS Integers, Sequences, FiniteSets, TLC

Entities == {"A", "B"}
Props == {"p", "q"}
\* the connections: two devices of entity A and one of entity B
Conns == {"c1", "c2", "c3"}
\* the device that edits the vault; the others listen
Writers == {"c1"}
\* useEventStream(entityId, ...): a client's socket subscribes and appends to
\* the one entity its vault is signed in to
EntityOf == [c \in Conns |-> IF c = "c3" THEN "B" ELSE "A"]
\* opaque ciphertexts a client may send
Payloads == {"x"}
\* propertyHints: none (appendEvent called directly), or [key] (setProperty,
\* deleteProperty)
Hints == {{}} \cup {{p} : p \in Props}

\* bound on the number of socket handler invocations in one behaviour
MaxSock == 3
\* bound on the server clock
MaxTime == 1

\* the invite and share codes clients make up
Codes == {"X", "Y"}
\* DEFAULT_TTL_MS, in units of ten minutes; a request never sets ttlMs
DEFAULT_TTL_MS == 1
\* the backfill of a consumed share: sourceEvents.slice(-10)
RECENT == 10
\* bounds on the number of HTTP requests in one behaviour of the invite routes
\* and of the share routes
MaxInvites == 4
MaxShares == 3
\* bound on the number of sharedEvent envelopes a client receives
MaxReceived == 3
\* bound on the server clock while HTTP requests are served
MaxClock == 2
\* bounds on the length of a source log when a share is consumed, and on the
\* number of requests served then
MaxLog == 12
MaxBackfill == 3
\* bound on the number of consume requests while shared events are delivered
MaxConsumes == 1
\* bound on the number of messages the clients send while the server's view of
\* them is examined
MaxWire == 5
\* bounds on the length of a replay and of the client's own stream
MaxReplay == 2
MaxStream == 4

VARIABLES
    eventsFile,   \* entities/<id>/events.json, per entity
    sharesFile,   \* entities/<id>/shares.json, per entity
    rooms,        \* Socket.IO rooms "entity:<id>": the connections joined
    sent,         \* per connection, the messages the server emitted to it, in order
    sock,         \* the invocations of the socket handlers, in order of arrival
    now,          \* the server clock (Date.now())
    codeFiles,    \* _invites.json and _shares.json: code -> record
    http,         \* the HTTP requests, in order of arrival
    sharedKeys,   \* client: sharedKeysRef, the sources whose key is registered
    queuedEvents, \* client: queuedEventsRef, per source the envelopes waiting for its key
    sharedData,   \* client: the sharedData state
    running,      \* client: the envelopes the pending continuation has yet to process
    received,     \* client: the envelopes received, in order of arrival
    processed,    \* client: the ids of the events processSharedEvent ran on, in order
    entityEvents, \* client: the events state, the decrypted events of the own stream
    entityState,  \* client: the state state, reduceEvents of them
    handled       \* client: how many of the messages sent to its connection it has handled

serverVars == <<eventsFile, sharesFile, rooms, sent, sock, now, codeFiles, http>>

\* the client's handling of shared events
sharingVars == <<sharedKeys, queuedEvents, sharedData, running, received, processed>>

\* the client's own stream
streamVars == <<entityEvents, entityState, handled>>

clientVars == <<sharedKeys, queuedEvents, sharedData, running, received, processed,
                entityEvents, entityState, handled>>

\* reduceEvents' null, and the state before any replay
Null == [null |-> TRUE]

vars == <<eventsFile, sharesFile, rooms, sent, sock, now, codeFiles, http,
          sharedKeys, queuedEvents, sharedData, running, received, processed,
          entityEvents, entityState, handled>>

----------------------------------------------------------------------------
(* Files *)

NoFile == [exists |-> FALSE, content |-> <<>>]

NoShares == [outgoing |-> <<>>, incoming |-> <<>>]

\* events.ts getEventStream: the parsed file, [] when the file does not exist
getEventStream(entityId) ==
    IF eventsFile[entityId].exists THEN eventsFile[entityId].content ELSE <<>>

\* storage.ts getShares: the parsed file, the empty fallback when it does not exist
getShares(entityId) ==
    IF sharesFile[entityId].exists THEN sharesFile[entityId].content ELSE NoShares

\* the share relations an entity's files can hold before any socket traffic:
\* each is the result of completed consume requests (AddOutgoingWrite,
\* AddIncomingWrite)
InitialShares ==
    { [e \in Entities |-> NoFile],
      [e \in Entities |->
         IF e = "A"
         THEN [exists |-> TRUE, content |->
                 [outgoing |-> << [targetEntityId |-> "B", propertyName |-> "p"] >>,
                  incoming |-> <<>>]]
         ELSE [exists |-> TRUE, content |->
                 [outgoing |-> <<>>,
                  incoming |-> << [sourceEntityId |-> "A", propertyName |-> "p",
                                   keyWrapped |-> 0] >>]]] }

----------------------------------------------------------------------------
(* Messages of the real-time protocol, server to client *)

ReplayMsg(events) == [type |-> "replay", body |-> events]
EventMsg(event) == [type |-> "event", body |-> event]
SharedEventMsg(envelope) == [type |-> "sharedEvent", body |-> envelope]
ErrorMsg(message) == [type |-> "error", body |-> message]

NoEvent == [id |-> 0, timestamp |-> 0, payload |-> "none"]

\* io.to(`entity:${entityId}`).emit(...): every connection joined to the room
\* is sent the message; socket.emit(...) is EmitTo with the one connection
EmitTo(recipients, msgs) ==
    [c \in Conns |-> IF c \in recipients THEN sent[c] \o msgs ELSE sent[c]]

----------------------------------------------------------------------------
(* Socket handler invocations *)

Handler(kind, conn, entityId, payload, hints) ==
    [kind |-> kind, conn |-> conn, entityId |-> entityId, payload |-> payload,
     propertyHints |-> hints, pc |-> "read", events |-> <<>>,
     savedEvent |-> NoEvent, outgoing |-> <<>>, error |-> "none"]

Running(r, kind, pc) ==
    /\ r \in DOMAIN sock
    /\ sock[r].kind = kind
    /\ sock[r].pc = pc

\* socket.on("subscribe"): socket.join, then await getEventStream
Subscribe(c, e) ==
    /\ Len(sock) < MaxSock
    /\ rooms' = [rooms EXCEPT ![e] = @ \cup {c}]
    /\ sock' = Append(sock, Handler("subscribe", c, e, "none", {}))
    /\ UNCHANGED <<eventsFile, sharesFile, sent, now, codeFiles, http, clientVars>>

\* the file read of the subscribe handler completes
SubscribeRead(r) ==
    /\ Running(r, "subscribe", "read")
    /\ sock' = [sock EXCEPT ![r].events = getEventStream(sock[r].entityId),
                            ![r].pc = "emit"]
    /\ UNCHANGED <<eventsFile, sharesFile, rooms, sent, now, codeFiles, http, clientVars>>

\* the replay emitted to the whole room instead of the subscribing socket
SubscribeReplayToRoom(r) ==
    /\ Running(r, "subscribe", "emit")
    /\ sent' = EmitTo(rooms[sock[r].entityId], << ReplayMsg(sock[r].events) >>)
    /\ sock' = [sock EXCEPT ![r].pc = "done"]
    /\ UNCHANGED <<eventsFile, sharesFile, rooms, now, codeFiles, http, clientVars>>

\* socket.emit("replay", events)
SubscribeReplay(r) ==
    /\ Running(r, "subscribe", "emit")
    /\ sent' = EmitTo({sock[r].conn}, << ReplayMsg(sock[r].events) >>)
    /\ sock' = [sock EXCEPT ![r].pc = "done"]
    /\ UNCHANGED <<eventsFile, sharesFile, rooms, now, codeFiles, http, clientVars>>

\* the read throws (not ENOENT): socket.emit("error", ...)
SubscribeFail(r) ==
    /\ Running(r, "subscribe", "read")
    /\ sent' = EmitTo({sock[r].conn}, << ErrorMsg("Failed to load event stream") >>)
    /\ sock' = [sock EXCEPT ![r].pc = "done", ![r].error = "getEventStream"]
    /\ UNCHANGED <<eventsFile, sharesFile, rooms, now, codeFiles, http, clientVars>>

\* socket.on("unsubscribe"): socket.leave
Unsubscribe(c, e) ==
    /\ c \in rooms[e]
    /\ rooms' = [rooms EXCEPT ![e] = @ \ {c}]
    /\ UNCHANGED <<eventsFile, sharesFile, sent, sock, now, codeFiles, http, clientVars>>

\* appendEvent writing the new event alone, without the events it read
AppendReadOverwriting(c, e, payload, hints, t) ==
    /\ Len(sock) < MaxSock
    /\ t >= now
    /\ now' = t
    /\ LET r == Len(sock) + 1
           newEvent == [id |-> r, timestamp |-> t, payload |-> payload]
       IN sock' = Append(sock,
                    [Handler("append", c, e, payload, hints) EXCEPT
                       !.events = << newEvent >>,
                       !.savedEvent = newEvent,
                       !.pc = "write"])
    /\ UNCHANGED <<eventsFile, sharesFile, rooms, sent, codeFiles, http, clientVars>>

\* socket.on("append"): appendEvent awaits ensureDir and the file read, during
\* which the handler has no effect; when the read completes newEvent is built
\* (randomUUID is fresh: the invocation's index; new Date() reads the clock,
\* which has moved on to t) and pushed onto the events just read
AppendRead(c, e, payload, hints, t) ==
    /\ Len(sock) < MaxSock
    /\ t >= now
    /\ now' = t
    /\ LET r == Len(sock) + 1
           newEvent == [id |-> r, timestamp |-> t, payload |-> payload]
       IN sock' = Append(sock,
                    [Handler("append", c, e, payload, hints) EXCEPT
                       !.events = Append(getEventStream(e), newEvent),
                       !.savedEvent = newEvent,
                       !.pc = "write"])
    /\ UNCHANGED <<eventsFile, sharesFile, rooms, sent, codeFiles, http, clientVars>>

\* appendEvent: fs.writeFile replaces the whole file by the handler's events.
\* The data is in the file from here on; the promise resolves, and the handler
\* goes on to broadcast, only once the file has been closed as well
AppendWrite(r) ==
    /\ Running(r, "append", "write")
    /\ eventsFile' = [eventsFile EXCEPT ![sock[r].entityId] =
                        [exists |-> TRUE, content |-> sock[r].events]]
    /\ sock' = [sock EXCEPT ![r].pc = "emit"]
    /\ UNCHANGED <<sharesFile, rooms, sent, now, codeFiles, http, clientVars>>

\* socket.to(room) in place of io.to(room): the sender is left out
AppendBroadcastToOthers(r) ==
    /\ Running(r, "append", "emit")
    /\ sent' = EmitTo(rooms[sock[r].entityId] \ {sock[r].conn},
                      << EventMsg(sock[r].savedEvent) >>)
    /\ sock' = [sock EXCEPT
                  ![r].pc = IF sock[r].propertyHints # {} THEN "shares" ELSE "done"]
    /\ UNCHANGED <<eventsFile, sharesFile, rooms, now, codeFiles, http, clientVars>>

\* io.to(`entity:${entityId}`).emit("event", savedEvent)
AppendBroadcast(r) ==
    /\ Running(r, "append", "emit")
    /\ sent' = EmitTo(rooms[sock[r].entityId], << EventMsg(sock[r].savedEvent) >>)
    /\ sock' = [sock EXCEPT
                  ![r].pc = IF sock[r].propertyHints # {} THEN "shares" ELSE "done"]
    /\ UNCHANGED <<eventsFile, sharesFile, rooms, now, codeFiles, http, clientVars>>

\* await getShares(entityId) completes
AppendGetShares(r) ==
    /\ Running(r, "append", "shares")
    /\ sock' = [sock EXCEPT ![r].outgoing = getShares(sock[r].entityId).outgoing,
                            ![r].pc = "propagate"]
    /\ UNCHANGED <<eventsFile, sharesFile, rooms, sent, now, codeFiles, http, clientVars>>

\* the propagation loop without its propertyHints.includes test
EnvelopesForEveryShare(r, c) ==
    LET matches(share) == c \in rooms[share.targetEntityId]
        hit == SelectSeq(sock[r].outgoing, matches)
    IN [i \in 1..Len(hit) |->
          SharedEventMsg([sourceEntityId |-> sock[r].entityId,
                          propertyName |-> hit[i].propertyName,
                          event |-> sock[r].savedEvent])]

\* the envelopes the propagation loop emits to connection c, in loop order
Envelopes(r, c) ==
    LET matches(share) == /\ share.propertyName \in sock[r].propertyHints
                          /\ c \in rooms[share.targetEntityId]
        hit == SelectSeq(sock[r].outgoing, matches)
    IN [i \in 1..Len(hit) |->
          SharedEventMsg([sourceEntityId |-> sock[r].entityId,
                          propertyName |-> hit[i].propertyName,
                          event |-> sock[r].savedEvent])]

\* for (const share of shares.outgoing) if (propertyHints.includes(...)) emit
AppendPropagate(r) ==
    /\ Running(r, "append", "propagate")
    /\ sent' = [c \in Conns |-> sent[c] \o Envelopes(r, c)]
    /\ sock' = [sock EXCEPT ![r].pc = "done"]
    /\ UNCHANGED <<eventsFile, sharesFile, rooms, now, codeFiles, http, clientVars>>

\* appendEvent throws (ensureDir, the read or the write: the file is as it was)
\* or getShares throws: catch, socket.emit("error", ...)
AppendFail(r) ==
    /\ r \in DOMAIN sock
    /\ sock[r].kind = "append"
    /\ sock[r].pc \in {"write", "shares"}
    /\ sent' = EmitTo({sock[r].conn}, << ErrorMsg("Failed to append event") >>)
    /\ sock' = [sock EXCEPT
                  ![r].pc = "done",
                  ![r].error = IF sock[r].pc = "write" THEN "appendEvent" ELSE "getShares"]
    /\ UNCHANGED <<eventsFile, sharesFile, rooms, now, codeFiles, http, clientVars>>

----------------------------------------------------------------------------
(* The code registry and the HTTP routes (Next.js route handlers in the    *)
(* same process).  A route that throws answers 500 and is left out.        *)

\* an empty invite or share map: readJsonFile's fallback {}
EmptyMap == [c \in {} |-> 0]

\* map[code] = record
Put(map, code, record) ==
    [c \in DOMAIN map \cup {code} |-> IF c = code THEN record ELSE map[c]]

\* delete map[code]
Delete(map, code) == [c \in DOMAIN map \ {code} |-> map[c]]

\* InviteRecord {entityId, sealed, expiresAt} and ShareRecord {sourceEntityId,
\* propertyName, sealedKey, expiresAt} in one shape: entityId is the inviting
\* or the sharing entity, propertyName is "none" in an invite
NoRecord == [entityId |-> "none", propertyName |-> "none", sealed |-> 0, expiresAt |-> 0]

Routes == {"invites/create", "invites/consume", "shares/create",
           "shares/consume", "shares/revoke"}

\* the file a create or consume route works on
FileOf(route) ==
    IF route \in {"invites/create", "invites/consume"}
    THEN "inviteMapFile" ELSE "shareMapFile"

\* one request: its inputs (entityId is the session's entity, or the body's
\* entityId of invites/create), the handler's position and its local variables
Request(route, entityId, code, propertyName, targetEntityId, sourceEntityId) ==
    [route |-> route, entityId |-> entityId, code |-> code,
     propertyName |-> propertyName, targetEntityId |-> targetEntityId,
     sourceEntityId |-> sourceEntityId, pc |-> "begin", map |-> EmptyMap,
     record |-> NoRecord, shares |-> NoShares, events |-> <<>>, status |-> 0,
     removed |-> FALSE]

At(h, routes, pc) ==
    /\ h \in DOMAIN http
    /\ http[h].route \in routes
    /\ http[h].pc = pc

\* NextResponse.json(..., {status}): the handler returns and its locals are gone
Respond(q, status) ==
    [q EXCEPT !.pc = "done", !.status = status, !.map = EmptyMap,
              !.shares = NoShares, !.events = <<>>]

\* the JSON body of the answer to a request that has returned
ResponseOf(q) ==
    IF q.status # 200 THEN [error |-> q.status]
    ELSE IF q.route \in {"invites/create", "shares/create"}
    THEN [expiresAt |-> q.record.expiresAt]
    ELSE IF q.route = "invites/consume"
    THEN [entityId |-> q.record.entityId, sealed |-> q.record.sealed]
    ELSE IF q.route = "shares/consume"
    THEN [sourceEntityId |-> q.record.entityId,
          propertyName |-> q.record.propertyName,
          sealedKey |-> q.record.sealed]
    ELSE [removed |-> q.removed]

WriteShares(entityId, shares) ==
    [sharesFile EXCEPT ![entityId] = [exists |-> TRUE, content |-> shares]]

\* invites/create, shares/create with the sealed box of the request body: await
\* getInvite/getShare completes; 409 when the code is pending, else expiresAt =
\* Date.now() + ttl (the clock has moved on to t) and createInvite/createShare
\* starts reading
CreateSealed(route, entityId, code, propertyName, sealed, t) ==
    /\ t >= now
    /\ LET q == Request(route, entityId, code, propertyName, "none", "none")
           existing == code \in DOMAIN codeFiles[FileOf(route)]
       IN /\ existing => t = now
          /\ now' = t
          /\ http' = Append(http,
                IF existing
                THEN Respond(q, 409)
                ELSE [q EXCEPT !.pc = "create_read",
                               !.record = [entityId |-> entityId,
                                           propertyName |-> propertyName,
                                           sealed |-> sealed,
                                           expiresAt |-> t + DEFAULT_TTL_MS]])
    /\ UNCHANGED <<codeFiles, sharesFile, sent, eventsFile, rooms, sock, clientVars>>

\* the same where the sealed box is fresh client-side ciphertext known by the
\* request's index
CreateCheck(route, entityId, code, propertyName, t) ==
    CreateSealed(route, entityId, code, propertyName, Len(http) + 1, t)

\* createInvite/createShare: the read completes, map[code] = record
CreateRead(h) ==
    /\ At(h, {"invites/create", "shares/create"}, "create_read")
    /\ http' = [http EXCEPT
                  ![h].map = Put(codeFiles[FileOf(http[h].route)], http[h].code,
                                 http[h].record),
                  ![h].pc = "create_write"]
    /\ UNCHANGED <<codeFiles, sharesFile, sent, now, eventsFile, rooms, sock, clientVars>>

\* createInvite/createShare: the write completes; 200 {expiresAt}
CreateWrite(h) ==
    /\ At(h, {"invites/create", "shares/create"}, "create_write")
    /\ codeFiles' = [codeFiles EXCEPT ![FileOf(http[h].route)] = http[h].map]
    /\ http' = [http EXCEPT ![h] = Respond(http[h], 200)]
    /\ UNCHANGED <<sharesFile, sent, now, eventsFile, rooms, sock, clientVars>>

\* consumeInvite/consumeShare: the read completes; null (404) when the code is
\* absent, else delete map[code] and start writing
ConsumeRead(route, entityId, code) ==
    /\ LET q == Request(route, entityId, code, "none", "none", "none")
           map == codeFiles[FileOf(route)]
       IN http' = Append(http,
             IF code \notin DOMAIN map
             THEN Respond(q, 404)
             ELSE [q EXCEPT !.pc = "consume_write",
                            !.record = map[code],
                            !.map = Delete(map, code)])
    /\ UNCHANGED <<codeFiles, sharesFile, sent, now, eventsFile, rooms, sock, clientVars>>

\* the consume routes without their expiresAt test
ConsumeWriteUnexpiring(h, t) ==
    /\ At(h, {"invites/consume", "shares/consume"}, "consume_write")
    /\ t >= now
    /\ now' = t
    /\ codeFiles' = [codeFiles EXCEPT ![FileOf(http[h].route)] = http[h].map]
    /\ http' = [http EXCEPT ![h] =
                  IF http[h].route = "invites/consume" THEN Respond(@, 200)
                  ELSE IF http[h].record.entityId = http[h].entityId THEN Respond(@, 400)
                  ELSE [@ EXCEPT !.pc = "addOutgoing_read"]]
    /\ UNCHANGED <<sharesFile, sent, eventsFile, rooms, sock, clientVars>>

\* the consume routes without the test for a share with oneself
ConsumeWriteToSelf(h, t) ==
    /\ At(h, {"invites/consume", "shares/consume"}, "consume_write")
    /\ t >= now
    /\ now' = t
    /\ codeFiles' = [codeFiles EXCEPT ![FileOf(http[h].route)] = http[h].map]
    /\ http' = [http EXCEPT ![h] =
                  IF http[h].record.expiresAt < t THEN Respond(@, 410)
                  ELSE IF http[h].route = "invites/consume" THEN Respond(@, 200)
                  ELSE [@ EXCEPT !.pc = "addOutgoing_read"]]
    /\ UNCHANGED <<sharesFile, sent, eventsFile, rooms, sock, clientVars>>

\* consumeInvite/consumeShare: the write completes and the record is returned
\* to the route: 410 when expired (the clock has moved on to t), 400 for a
\* share consumed by its source, 200 for an invite, else addOutgoingShare starts
ConsumeWrite(h, t) ==
    /\ At(h, {"invites/consume", "shares/consume"}, "consume_write")
    /\ t >= now
    /\ now' = t
    /\ codeFiles' = [codeFiles EXCEPT ![FileOf(http[h].route)] = http[h].map]
    /\ http' = [http EXCEPT ![h] =
                  IF http[h].record.expiresAt < t THEN Respond(@, 410)
                  ELSE IF http[h].route = "invites/consume" THEN Respond(@, 200)
                  ELSE IF http[h].record.entityId = http[h].entityId THEN Respond(@, 400)
                  ELSE [@ EXCEPT !.pc = "addOutgoing_read"]]
    /\ UNCHANGED <<sharesFile, sent, eventsFile, rooms, sock, clientVars>>

\* addOutgoingShare(record.sourceEntityId, {targetEntityId, propertyName}): the
\* read completes; nothing is written when the share exists
AddOutgoingRead(h) ==
    /\ At(h, {"shares/consume"}, "addOutgoing_read")
    /\ LET q == http[h]
           shares == getShares(q.record.entityId)
           share == [targetEntityId |-> q.entityId,
                     propertyName |-> q.record.propertyName]
           exists == \E i \in DOMAIN shares.outgoing :
                        /\ shares.outgoing[i].targetEntityId = share.targetEntityId
                        /\ shares.outgoing[i].propertyName = share.propertyName
       IN http' = [http EXCEPT ![h] =
             IF exists
             THEN [@ EXCEPT !.pc = "addIncoming_read"]
             ELSE [@ EXCEPT !.pc = "addOutgoing_write",
                            !.shares = [shares EXCEPT
                                          !.outgoing = Append(@, share)]]]
    /\ UNCHANGED <<codeFiles, sharesFile, sent, now, eventsFile, rooms, sock, clientVars>>

AddOutgoingWrite(h) ==
    /\ At(h, {"shares/consume"}, "addOutgoing_write")
    /\ sharesFile' = WriteShares(http[h].record.entityId, http[h].shares)
    /\ http' = [http EXCEPT ![h].pc = "addIncoming_read"]
    /\ UNCHANGED <<codeFiles, sent, now, eventsFile, rooms, sock, clientVars>>

\* addIncomingShare(targetEntityId, {sourceEntityId, propertyName, keyWrapped})
AddIncomingRead(h) ==
    /\ At(h, {"shares/consume"}, "addIncoming_read")
    /\ LET q == http[h]
           shares == getShares(q.entityId)
           share == [sourceEntityId |-> q.record.entityId,
                     propertyName |-> q.record.propertyName,
                     keyWrapped |-> q.record.sealed]
           exists == \E i \in DOMAIN shares.incoming :
                        /\ shares.incoming[i].sourceEntityId = share.sourceEntityId
                        /\ shares.incoming[i].propertyName = share.propertyName
       IN http' = [http EXCEPT ![h] =
             IF exists
             THEN [@ EXCEPT !.pc = "backfill_read"]
             ELSE [@ EXCEPT !.pc = "addIncoming_write",
                            !.shares = [shares EXCEPT
                                          !.incoming = Append(@, share)]]]
    /\ UNCHANGED <<codeFiles, sharesFile, sent, now, eventsFile, rooms, sock, clientVars>>

AddIncomingWrite(h) ==
    /\ At(h, {"shares/consume"}, "addIncoming_write")
    /\ sharesFile' = WriteShares(http[h].entityId, http[h].shares)
    /\ http' = [http EXCEPT ![h].pc = "backfill_read"]
    /\ UNCHANGED <<codeFiles, sent, now, eventsFile, rooms, sock, clientVars>>

\* sourceEvents = await getEventStream(record.sourceEntityId)
BackfillRead(h) ==
    /\ At(h, {"shares/consume"}, "backfill_read")
    /\ http' = [http EXCEPT ![h].events = getEventStream(http[h].record.entityId),
                            ![h].pc = "backfill_emit"]
    /\ UNCHANGED <<codeFiles, sharesFile, sent, now, eventsFile, rooms, sock, clientVars>>

\* the whole log instead of its last events
recentEventsAll(sourceEvents) == sourceEvents

\* sourceEvents.slice(-10)
recentEvents(sourceEvents) ==
    SubSeq(sourceEvents,
           IF Len(sourceEvents) > RECENT THEN Len(sourceEvents) - RECENT + 1 ELSE 1,
           Len(sourceEvents))

\* the recent events go to the target's room as sharedEvent envelopes; 200
\* {sourceEntityId, propertyName, sealedKey}
BackfillEmit(h) ==
    /\ At(h, {"shares/consume"}, "backfill_emit")
    /\ LET q == http[h]
           recent == recentEvents(q.events)
       IN sent' = EmitTo(rooms[q.entityId],
                    [i \in 1..Len(recent) |->
                       SharedEventMsg([sourceEntityId |-> q.record.entityId,
                                       propertyName |-> q.record.propertyName,
                                       event |-> recent[i]])])
    /\ http' = [http EXCEPT ![h] = Respond(@, 200)]
    /\ UNCHANGED <<codeFiles, sharesFile, now, eventsFile, rooms, sock, clientVars>>

\* removeOutgoingShare's filter
WithoutOutgoing(shares, targetEntityId, propertyName) ==
    LET keep(s) == ~(s.targetEntityId = targetEntityId /\ s.propertyName = propertyName)
    IN [shares EXCEPT !.outgoing = SelectSeq(@, keep)]

\* removeIncomingShare's filter
WithoutIncoming(shares, sourceEntityId, propertyName) ==
    LET keep(s) == ~(s.sourceEntityId = sourceEntityId /\ s.propertyName = propertyName)
    IN [shares EXCEPT !.incoming = SelectSeq(@, keep)]

\* shares/revoke: the entity whose shares.json the k-th removal works on
RevokeOwner(q, k) ==
    IF k = 1 THEN q.entityId
    ELSE IF q.targetEntityId # "none" THEN q.targetEntityId ELSE q.sourceEntityId

\* the shares the k-th removal has after its read and filter: the caller's
\* outgoing and then the target's incoming list when body.targetEntityId is
\* given, the caller's incoming and then the source's outgoing list otherwise
RevokeFiltered(q, k) ==
    LET shares == getShares(RevokeOwner(q, k))
        other == RevokeOwner(q, 3 - k)
    IN IF (q.targetEntityId # "none") = (k = 1)
       THEN WithoutOutgoing(shares, other, q.propertyName)
       ELSE WithoutIncoming(shares, other, q.propertyName)

\* shares/revoke: the read of the first removal completes; {removed: false}
\* when the filter removed nothing
RevokeRead(entityId, propertyName, targetEntityId, sourceEntityId) ==
    /\ LET q == Request("shares/revoke", entityId, "none", propertyName,
                        targetEntityId, sourceEntityId)
       IN http' = Append(http,
             IF RevokeFiltered(q, 1) = getShares(entityId)
             THEN Respond(q, 200)
             ELSE [q EXCEPT !.pc = "remove_write", !.shares = RevokeFiltered(q, 1)])
    /\ UNCHANGED <<codeFiles, sharesFile, sent, now, eventsFile, rooms, sock, clientVars>>

\* the write of the first removal completes: removed = true
RevokeWrite(h) ==
    /\ At(h, {"shares/revoke"}, "remove_write")
    /\ sharesFile' = WriteShares(RevokeOwner(http[h], 1), http[h].shares)
    /\ http' = [http EXCEPT ![h].removed = TRUE, ![h].pc = "mirror_read"]
    /\ UNCHANGED <<codeFiles, sent, now, eventsFile, rooms, sock, clientVars>>

\* the read of the mirror removal completes; its result is not looked at
RevokeMirrorRead(h) ==
    /\ At(h, {"shares/revoke"}, "mirror_read")
    /\ http' = [http EXCEPT ![h] =
                  IF RevokeFiltered(@, 2) = getShares(RevokeOwner(@, 2))
                  THEN Respond(@, 200)
                  ELSE [@ EXCEPT !.pc = "mirror_write",
                                 !.shares = RevokeFiltered(http[h], 2)]]
    /\ UNCHANGED <<codeFiles, sharesFile, sent, now, eventsFile, rooms, sock, clientVars>>

RevokeMirrorWrite(h) ==
    /\ At(h, {"shares/revoke"}, "mirror_write")
    /\ sharesFile' = WriteShares(RevokeOwner(http[h], 2), http[h].shares)
    /\ http' = [http EXCEPT ![h] = Respond(@, 200)]
    /\ UNCHANGED <<codeFiles, sent, now, eventsFile, rooms, sock, clientVars>>

----------------------------------------------------------------------------
(* The client: one useEventStream hook and the sharedEvent envelopes it    *)
(* receives.  The browser runs one task at a time (a socket message, the   *)
(* continuation of an HTTP call) and, after it, every pending promise      *)
(* continuation before the next task.  decryptJson awaits sodium.ready     *)
(* alone, which is resolved before a vault has any key, so the awaits of   *)
(* processSharedEvent are such continuations: while one is pending         *)
(* (running # <<>>) no task starts.                                        *)

\* what decryptJson finds in the payload of a shared event: a PropertySet or
\* PropertyDeleted of property p, or a ciphertext that does not open
Contents ==
    [type : {"PropertySet", "PropertyDeleted"}, key : {"p"}] \cup
    {[type |-> "undecryptable", key |-> "none"]}

\* setSharedData's updaters in processSharedEvent, for the event decrypted
WithSharedEvent(data, envelope) ==
    LET same(s) == /\ s.sourceEntityId = envelope.sourceEntityId
                   /\ s.propertyName = envelope.propertyName
        other(s) == ~same(s)
        newEntry == [sourceEntityId |-> envelope.sourceEntityId,
                     propertyName |-> envelope.propertyName,
                     value |-> envelope.event.id,
                     timestamp |-> envelope.event.timestamp]
    IN IF envelope.event.payload.key # envelope.propertyName THEN data
       ELSE IF envelope.event.payload.type = "PropertySet"
       THEN IF \E i \in DOMAIN data : same(data[i])
            THEN [i \in DOMAIN data |-> IF same(data[i]) THEN newEntry ELSE data[i]]
            ELSE Append(data, newEntry)
       ELSE IF envelope.event.payload.type = "PropertyDeleted"
       THEN SelectSeq(data, other)
       ELSE data

\* socket.on("sharedEvent"): the n-th envelope arrives; without a key for its
\* source it is pushed onto the source's queue, else processSharedEvent starts
ReceiveSharedEvent(source, propertyName, content) ==
    /\ running = <<>>
    /\ Len(received) < MaxReceived
    /\ LET n == Len(received) + 1
           envelope == [sourceEntityId |-> source, propertyName |-> propertyName,
                        event |-> [id |-> n, timestamp |-> n, payload |-> content]]
           hasKey == source \in sharedKeys
       IN /\ received' = Append(received, [envelope |-> envelope, hasKey |-> hasKey])
          /\ IF hasKey
             THEN /\ running' = << envelope >>
                  /\ UNCHANGED queuedEvents
             ELSE /\ queuedEvents' = [queuedEvents EXCEPT ![source] = Append(@, envelope)]
                  /\ UNCHANGED running
    /\ UNCHANGED <<sharedKeys, sharedData, processed, streamVars, serverVars>>

\* the queue walked from its newest envelope
NewestFirst(queued) == [i \in 1..Len(queued) |-> queued[Len(queued) + 1 - i]]

\* for (const envelope of queued): the order in which the drain visits the queue
DrainOrder(queued) == queued

\* registerSharedKey after openSharedKey returned the key: the key is set and
\* the source's queue is taken for processing
RegisterSharedKey(source) ==
    /\ running = <<>>
    /\ sharedKeys' = sharedKeys \cup {source}
    /\ running' = DrainOrder(queuedEvents[source])
    /\ queuedEvents' = [queuedEvents EXCEPT ![source] = <<>>]
    /\ UNCHANGED <<sharedData, received, processed, streamVars, serverVars>>

\* registerSharedKey when openSharedKey throws (a wrong code, a damaged box):
\* the catch logs, the key is not set and the queue stays
RegisterSharedKeyFails(source) ==
    /\ running = <<>>
    /\ source \in Entities
    /\ UNCHANGED <<sharedKeys, queuedEvents, running, sharedData, received,
                   processed, streamVars, serverVars>>

\* await processSharedEvent(envelope) for the next envelope of the running
\* chain: decryptSharedEvent, then the update of sharedData
ProcessSharedEvent ==
    /\ running # <<>>
    /\ LET envelope == Head(running)
       IN /\ sharedData' = IF envelope.sourceEntityId \in sharedKeys
                           THEN WithSharedEvent(sharedData, envelope)
                           ELSE sharedData
          /\ processed' = Append(processed, envelope.event.id)
    /\ running' = Tail(running)
    /\ UNCHANGED <<sharedKeys, queuedEvents, received, streamVars, serverVars>>

\* unregisterSharedKey: the key, the queue and the values of the source go
UnregisterSharedKey(source) ==
    /\ running = <<>>
    /\ sharedKeys' = sharedKeys \ {source}
    /\ queuedEvents' = [queuedEvents EXCEPT ![source] = <<>>]
    /\ sharedData' = LET other(s) == s.sourceEntityId # source
                     IN SelectSeq(sharedData, other)
    /\ UNCHANGED <<running, received, processed, streamVars, serverVars>>

----------------------------------------------------------------------------

Init ==
    /\ eventsFile = [e \in Entities |-> NoFile]
    /\ sharesFile \in InitialShares
    /\ rooms = [e \in Entities |-> {}]
    /\ sent = [c \in Conns |-> <<>>]
    /\ sock = <<>>
    /\ now = 0
    /\ codeFiles = [inviteMapFile |-> EmptyMap, shareMapFile |-> EmptyMap]
    /\ http = <<>>
    /\ sharedKeys = {}
    /\ queuedEvents = [e \in Entities |-> <<>>]
    /\ sharedData = <<>>
    /\ running = <<>>
    /\ received = <<>>
    /\ processed = <<>>
    /\ entityEvents = <<>>
    /\ entityState = Null
    /\ handled = 0

\* the socket traffic
Next ==
    \/ \E c \in Conns : Subscribe(c, EntityOf[c])
    \/ \E c \in Conns : Unsubscribe(c, EntityOf[c])
    \/ \E c \in Writers, payload \in Payloads, hints \in Hints, t \in 0..MaxTime :
          AppendRead(c, EntityOf[c], payload, hints, t)
    \/ \E r \in 1..MaxSock :
          \/ SubscribeRead(r)
          \/ SubscribeReplay(r)
          \/ SubscribeFail(r)
          \/ AppendWrite(r)
          \/ AppendBroadcast(r)
          \/ AppendGetShares(r)
          \/ AppendPropagate(r)
          \/ AppendFail(r)

Spec == Init /\ [][Next]_vars

\* an append to the entity is inside appendEvent
Appending(e) ==
    \E r \in DOMAIN sock :
        sock[r].kind = "append" /\ sock[r].entityId = e /\ sock[r].pc = "write"

\* the socket traffic when the appends to an entity run one after the other:
\* appendEvent is entered only when the previous call for the entity has returned
NextSequential ==
    \/ \E c \in Conns : Subscribe(c, EntityOf[c])
    \/ \E c \in Conns : Unsubscribe(c, EntityOf[c])
    \/ \E c \in Writers, payload \in Payloads, hints \in Hints, t \in 0..MaxTime :
          /\ ~Appending(EntityOf[c])
          /\ AppendRead(c, EntityOf[c], payload, hints, t)
    \/ \E r \in 1..MaxSock :
          \/ SubscribeRead(r)
          \/ SubscribeReplay(r)
          \/ SubscribeFail(r)
          \/ AppendWrite(r)
          \/ AppendBroadcast(r)
          \/ AppendGetShares(r)
          \/ AppendPropagate(r)
          \/ AppendFail(r)

SpecSequential == Init /\ [][NextSequential]_vars

\* the requests of the invite routes
NextInvites ==
    \/ /\ Len(http) < MaxInvites
       /\ \E e \in Entities, code \in Codes, t \in 0..MaxClock :
             CreateCheck("invites/create", e, code, "none", t)
    \/ /\ Len(http) < MaxInvites
       /\ \E code \in Codes : ConsumeRead("invites/consume", "none", code)
    \/ \E h \in 1..MaxInvites :
          \/ CreateRead(h)
          \/ CreateWrite(h)
          \/ \E t \in 0..MaxClock : ConsumeWrite(h, t)

SpecInvites == Init /\ [][NextInvites]_vars

\* the requests of the share routes; a revoke names the other entity
NextShares ==
    \/ /\ Len(http) < MaxShares
       /\ \E e \in Entities, code \in Codes, p \in Props, t \in 0..MaxClock :
             CreateCheck("shares/create", e, code, p, t)
    \/ /\ Len(http) < MaxShares
       /\ \E e \in Entities, code \in Codes : ConsumeRead("shares/consume", e, code)
    \/ /\ Len(http) < MaxShares
       /\ \E e \in Entities, other \in Entities, p \in Props :
             /\ other # e
             /\ \/ RevokeRead(e, p, other, "none")
                \/ RevokeRead(e, p, "none", other)
    \/ \E h \in 1..MaxShares :
          \/ CreateRead(h)
          \/ CreateWrite(h)
          \/ \E t \in 0..MaxClock : ConsumeWrite(h, t)
          \/ AddOutgoingRead(h)
          \/ AddOutgoingWrite(h)
          \/ AddIncomingRead(h)
          \/ AddIncomingWrite(h)
          \/ BackfillRead(h)
          \/ BackfillEmit(h)
          \/ RevokeWrite(h)
          \/ RevokeMirrorRead(h)
          \/ RevokeMirrorWrite(h)

SpecShares == Init /\ [][NextShares]_vars

\* the tasks and continuations of the client
NextClient ==
    \/ \E source \in Entities, p \in Props, content \in Contents :
          ReceiveSharedEvent(source, p, content)
    \/ \E source \in Entities : RegisterSharedKey(source)
    \/ \E source \in Entities : RegisterSharedKeyFails(source)
    \/ ProcessSharedEvent
    \/ \E source \in Entities : UnregisterSharedKey(source)

SpecClient == Init /\ [][NextClient]_vars

----------------------------------------------------------------------------
(* Helpers of the properties *)

Range(seq) == {seq[i] : i \in DOMAIN seq}

Positions(seq, x) == {i \in DOMAIN seq : seq[i] = x}

\* where msgs holds the message of the given type and body
MsgPositions(msgs, type, body) ==
    {i \in DOMAIN msgs : msgs[i].type = type /\ msgs[i].body = body}

Last(seq) == seq[Len(seq)]

\* the messages a step adds to connection c
NewMsgs(c) == SubSeq(sent'[c], Len(sent[c]) + 1, Len(sent'[c]))

Appends == {r \in DOMAIN sock : sock[r].kind = "append"}

Subscribes == {r \in DOMAIN sock : sock[r].kind = "subscribe"}

\* appendEvent has returned savedEvent to the handler
AppendReturned(r) ==
    /\ r \in Appends
    /\ sock[r].pc # "write"
    /\ sock[r].error # "appendEvent"

\* r2's read completed while r1 was still inside appendEvent: r1 read first and
\* the events r2 read do not hold r1's event
Overlap(r1, r2) ==
    /\ r1 < r2
    /\ sock[r1].entityId = sock[r2].entityId
    /\ sock[r1].savedEvent \notin Range(sock[r2].events)

StepOf(r, from, to) ==
    /\ r \in DOMAIN sock
    /\ sock[r].pc = from
    /\ sock'[r].pc = to

HttpStepOf(h, from, to) ==
    /\ h \in DOMAIN http
    /\ http[h].pc = from
    /\ http'[h].pc = to

----------------------------------------------------------------------------
(* The event store and the hub *)

\* C1: once two overlapping appends to one entity have both returned, the
\* entity's log (what every later replay reads) holds both events, each once
C1_OverlappingAppendsBothStored ==
    \A r1, r2 \in Appends :
        (Overlap(r1, r2) /\ AppendReturned(r1) /\ AppendReturned(r2)) =>
            LET log == getEventStream(sock[r1].entityId)
            IN /\ Cardinality(Positions(log, sock[r1].savedEvent)) = 1
               /\ Cardinality(Positions(log, sock[r2].savedEvent)) = 1

\* C7: a connection that was sent the 'event' messages of two events of one
\* entity was sent them in the order the events have in the stored log
C7_BroadcastOrderIsLogOrder ==
    \A c \in Conns, e \in Entities :
        LET log == getEventStream(e)
        IN \A i, j \in DOMAIN log :
              i < j =>
                \A a \in MsgPositions(sent[c], "event", log[i]),
                   b \in MsgPositions(sent[c], "event", log[j]) : a < b

\* C8: the write of an append leaves savedEvent as the last event of the
\* entity's log; the broadcast that follows sends 'event' with savedEvent to
\* exactly the connections in the entity's room at that moment, the sender
\* like any other; and no other step of a socket handler sends an 'event'
C8_AppendBroadcast ==
    [][ /\ \A r \in Appends :
             StepOf(r, "write", "emit") =>
                /\ eventsFile'[sock[r].entityId].exists
                /\ Last(eventsFile'[sock[r].entityId].content) = sock[r].savedEvent
                /\ Cardinality(Positions(eventsFile'[sock[r].entityId].content,
                                         sock[r].savedEvent)) = 1
        /\ \A r \in Appends :
             (sock[r].pc = "emit" /\ sock'[r].pc # "emit") =>
                \A c \in Conns :
                   sent'[c] = IF c \in rooms[sock[r].entityId]
                              THEN Append(sent[c], EventMsg(sock[r].savedEvent))
                              ELSE sent[c]
        /\ \A c \in Conns :
             (\E m \in Range(NewMsgs(c)) : m.type = "event") =>
                \E r \in Appends :
                   /\ sock[r].pc = "emit" /\ sock'[r].pc # "emit"
                   /\ c \in rooms[sock[r].entityId]
                   /\ NewMsgs(c) = << EventMsg(sock[r].savedEvent) >>
                   /\ sock[r].savedEvent \in Range(sock[r].events)
      ]_vars

\* an append was broadcast to both devices in the room of A, its sender one of
\* them, and not to the device of B, which is in no room of A
C8_Witness ==
    \E r \in Appends :
        /\ AppendReturned(r) /\ sock[r].pc # "emit"
        /\ sock[r].conn = "c1"
        /\ MsgPositions(sent["c1"], "event", sock[r].savedEvent) # {}
        /\ MsgPositions(sent["c2"], "event", sock[r].savedEvent) # {}
        /\ {"c1", "c2"} \subseteq rooms["A"]
        /\ sent["c3"] = <<>>

\* the replays sent to c
Replays(c) == {i \in DOMAIN sent[c] : sent[c][i].type = "replay"}

\* C9: a subscribe joins its connection to the entity's room and sends
\* nothing; its read takes the entity's whole log as it is then; its replay
\* carries the events read and goes to the subscribing connection alone; a
\* connection has been sent one replay per subscribe of its own that completed
\* without a read failure, and none otherwise
C9_SubscribeReplay ==
    /\ [](\A c \in Conns :
            Cardinality(Replays(c)) =
               Cardinality({r \in Subscribes : /\ sock[r].conn = c
                                               /\ sock[r].pc = "done"
                                               /\ sock[r].error = "none"}))
    /\ [][ /\ (Len(sock') > Len(sock) /\ Last(sock').kind = "subscribe") =>
                /\ Last(sock').conn \in rooms'[Last(sock').entityId]
                /\ sent' = sent
           /\ \A r \in Subscribes :
                StepOf(r, "read", "emit") =>
                   /\ sock'[r].events = getEventStream(sock[r].entityId)
                   /\ sent' = sent
           /\ \A r \in Subscribes :
                StepOf(r, "emit", "done") =>
                   \A c \in Conns :
                      sent'[c] = IF c = sock[r].conn
                                 THEN Append(sent[c], ReplayMsg(sock[r].events))
                                 ELSE sent[c]
         ]_vars

\* c2 subscribed to A after an append was written, with c1 already in the
\* room: c2 alone was sent the replay, which carries the one event
C9_Witness ==
    \E r \in Subscribes :
        /\ sock[r].conn = "c2" /\ sock[r].pc = "done" /\ sock[r].error = "none"
        /\ "c1" \in rooms["A"]
        /\ Len(getEventStream("A")) = 1
        /\ MsgPositions(sent["c2"], "replay", getEventStream("A")) # {}
        /\ MsgPositions(sent["c1"], "replay", getEventStream("A")) = {}

\* the sharedEvent messages among msgs that name property p
SharedFor(msgs, p) ==
    {i \in DOMAIN msgs : msgs[i].type = "sharedEvent" /\ msgs[i].body.propertyName = p}

\* C10: the share lookup of an append reads the outgoing shares of the
\* entity; the propagation that follows sends each connection c, for every
\* property p, as many sharedEvent envelopes {S, p, savedEvent} as S has
\* outgoing shares (T, p) with p among the hints and c in the room of T, and
\* nothing else; an append without hints sends no sharedEvent, and no other
\* step of a socket handler does
C10_SharePropagation ==
    [][ /\ \A r \in Appends :
             StepOf(r, "shares", "propagate") =>
                /\ sock[r].propertyHints # {}
                /\ sock'[r].outgoing = getShares(sock[r].entityId).outgoing
        /\ \A r \in Appends :
             StepOf(r, "propagate", "done") =>
                \A c \in Conns :
                   /\ sent[c] = SubSeq(sent'[c], 1, Len(sent[c]))
                   /\ \A m \in Range(NewMsgs(c)) :
                        /\ m.type = "sharedEvent"
                        /\ m.body.sourceEntityId = sock[r].entityId
                        /\ m.body.event = sock[r].savedEvent
                   /\ \A p \in Props :
                        Cardinality(SharedFor(NewMsgs(c), p)) =
                           Cardinality({i \in DOMAIN sock[r].outgoing :
                              /\ sock[r].outgoing[i].propertyName = p
                              /\ p \in sock[r].propertyHints
                              /\ c \in rooms[sock[r].outgoing[i].targetEntityId]})
        /\ \A c \in Conns :
             (sock' # sock /\ \E m \in Range(NewMsgs(c)) : m.type = "sharedEvent") =>
                \E r \in Appends : StepOf(r, "propagate", "done")
      ]_vars

\* an append to A hinting p was propagated to the device in the room of B, the
\* target of A's share of p; an append hinting q was not
C10_Witness ==
    \E r1, r2 \in Appends :
        /\ sock[r1].pc = "done" /\ sock[r1].error = "none"
        /\ sock[r2].pc = "done" /\ sock[r2].error = "none"
        /\ sock[r1].propertyHints = {"p"}
        /\ sock[r2].propertyHints = {"q"}
        /\ MsgPositions(sent["c3"], "sharedEvent",
                        [sourceEntityId |-> "A", propertyName |-> "p",
                         event |-> sock[r1].savedEvent]) # {}
        /\ \A i \in DOMAIN sent["c3"] :
              sent["c3"][i].type = "sharedEvent" =>
                 sent["c3"][i].body.event # sock[r2].savedEvent

----------------------------------------------------------------------------
(* The code registry *)

Consumes ==
    {h \in DOMAIN http : http[h].route \in {"invites/consume", "shares/consume"}}

Revokes == {h \in DOMAIN http : http[h].route = "shares/revoke"}

\* consumeInvite/consumeShare has returned a record to the route of request h
Obtained(h) ==
    /\ h \in Consumes
    /\ http[h].pc # "consume_write"
    /\ http[h].status # 404

\* C2: no two consume requests obtain the record of the same created code (a
\* created record is known by its sealed box, which no other creation has)
C2_ConsumedAtMostOnce ==
    \A h1, h2 \in Consumes :
        (h1 # h2 /\ Obtained(h1) /\ Obtained(h2)) =>
            http[h1].record # http[h2].record

\* C3: a consume request that arrives after a consume of the same code has
\* answered 200 is answered NotFound, or finds a record created since: never
\* the record the earlier consume was given
C3_SingleUse ==
    [][ (Len(http') > Len(http) /\ Len(http') \in Consumes') =>
           \A h \in Consumes :
              ( /\ http[h].route = Last(http').route
                /\ http[h].code = Last(http').code
                /\ http[h].pc = "done"
                /\ http[h].status = 200 ) =>
                    \/ Last(http').status = 404
                    \/ Last(http').record # http[h].record
      ]_vars

\* S has an OutgoingShare (T, p) / T has an IncomingShare (S, p), in the files
OutgoingAt(files, S, T, p) ==
    LET list == IF files[S].exists THEN files[S].content.outgoing ELSE <<>>
    IN {i \in DOMAIN list : list[i].targetEntityId = T /\ list[i].propertyName = p}

IncomingAt(files, T, S, p) ==
    LET list == IF files[T].exists THEN files[T].content.incoming ELSE <<>>
    IN {i \in DOMAIN list : list[i].sourceEntityId = S /\ list[i].propertyName = p}

\* no shares/consume and no shares/revoke request is mid-execution
Quiescent ==
    \A h \in DOMAIN http :
        http[h].route \in {"shares/consume", "shares/revoke"} => http[h].pc = "done"

\* C4: with no consume and no revoke mid-execution, S has an outgoing share
\* (T, p) exactly when T has an incoming share (S, p), each at most once
C4_MirroredAndDeduplicated ==
    Quiescent =>
        \A S \in Entities, T \in Entities, p \in Props :
            /\ Cardinality(OutgoingAt(sharesFile, S, T, p)) <= 1
            /\ Cardinality(IncomingAt(sharesFile, T, S, p)) <= 1
            /\ (OutgoingAt(sharesFile, S, T, p) # {}) <=>
                  (IncomingAt(sharesFile, T, S, p) # {})

\* the source and the target of the share a revoke request names
RevokedSource(q) == IF q.targetEntityId # "none" THEN q.entityId ELSE q.sourceEntityId

RevokedTarget(q) == IF q.targetEntityId # "none" THEN q.targetEntityId ELSE q.entityId

\* C5: the write after which a revoke has removed = true takes a matching
\* record out of the caller's file; a revoke that answers removed = true
\* leaves neither the outgoing share on the source nor the incoming share on
\* the target; one that answers removed = false found no matching record on
\* the caller's side and changed no file
C5_RevokeRemovesBothSides ==
    [][ /\ \A h \in Revokes :
             HttpStepOf(h, "remove_write", "mirror_read") =>
                sharesFile'[http[h].entityId] # sharesFile[http[h].entityId]
        /\ \A h \in Revokes' :
             (http'[h].pc = "done" /\ (h \notin Revokes \/ http[h].pc # "done")) =>
                LET q == http'[h]
                    S == RevokedSource(q)
                    T == RevokedTarget(q)
                IN IF q.removed
                   THEN /\ OutgoingAt(sharesFile', S, T, q.propertyName) = {}
                        /\ IncomingAt(sharesFile', T, S, q.propertyName) = {}
                   ELSE /\ sharesFile' = sharesFile
                        /\ IF q.targetEntityId # "none"
                           THEN OutgoingAt(sharesFile, S, T, q.propertyName) = {}
                           ELSE IncomingAt(sharesFile, T, S, q.propertyName) = {}
      ]_vars

----------------------------------------------------------------------------
(* The client's queue of shared events *)

\* the ids of the events in a sequence of envelopes
Ids(envelopes) == [i \in DOMAIN envelopes |-> envelopes[i].event.id]

Increasing(ids) == \A i, j \in DOMAIN ids : i < j => ids[i] < ids[j]

SourceOf(id) == received[id].envelope.sourceEntityId

\* the envelopes of a source that wait for its key or for the running chain
Pending(source) ==
    Range(Ids(queuedEvents[source])) \cup
    {id \in Range(Ids(running)) : SourceOf(id) = source}

\* C6: an envelope that arrives while its source has no key goes to the end of
\* the source's queue and nothing is processed; registering the key hands the
\* whole queue, in order, to the processing chain; a queue loses envelopes in
\* no other way than that or unregisterSharedKey; the chain processes its
\* envelopes from the front; so the events of one source are processed in
\* arrival order, and every envelope of the source still waiting arrived
\* after all those processed
C6_QueuedThenDrainedInOrder ==
    /\ [](\A source \in Entities :
            /\ Increasing(Ids(queuedEvents[source]))
            /\ \A a, b \in DOMAIN processed :
                 (a < b /\ SourceOf(processed[a]) = source
                        /\ SourceOf(processed[b]) = source) =>
                     processed[a] < processed[b]
            /\ \A i \in Pending(source), b \in DOMAIN processed :
                 SourceOf(processed[b]) = source => processed[b] < i)
    /\ [][ /\ (Len(received') > Len(received) /\ ~Last(received').hasKey) =>
                LET envelope == Last(received').envelope
                IN /\ queuedEvents'[envelope.sourceEntityId] =
                         Append(queuedEvents[envelope.sourceEntityId], envelope)
                   /\ processed' = processed
           /\ \A source \in Entities :
                (Len(received') = Len(received)
                   /\ queuedEvents'[source] # queuedEvents[source]) =>
                    /\ queuedEvents'[source] = <<>>
                    /\ \/ source \in sharedKeys' /\ running' = queuedEvents[source]
                       \/ source \notin sharedKeys'
           /\ processed' # processed =>
                /\ running # <<>>
                /\ processed' = Append(processed, Head(running).event.id)
                /\ running' = Tail(running)
         ]_vars

\* two envelopes of A arrived before A's key and one after it was registered:
\* all three have been processed, the queued two first
C6_Witness ==
    /\ Len(received) = 3
    /\ \A n \in 1..3 : SourceOf(n) = "A"
    /\ ~received[1].hasKey /\ ~received[2].hasKey /\ received[3].hasKey
    /\ processed = <<1, 2, 3>>

----------------------------------------------------------------------------
(* The event store, sequential use *)

\* the events of the appends to an entity that have returned, in the order of
\* the appends, each as it was built at append time
Appended(entityId) ==
    LET returned(h) == /\ h.kind = "append"
                       /\ h.entityId = entityId
                       /\ h.pc # "write"
                       /\ h.error # "appendEvent"
        done == SelectSeq(sock, returned)
    IN [i \in 1..Len(done) |-> done[i].savedEvent]

IsPrefix(s, t) == Len(s) <= Len(t) /\ s = SubSeq(t, 1, Len(s))

\* C11: with the appends to each entity run one after the other, the log of
\* an entity is exactly the events appended to it, in append order and as
\* built at append time; the log only grows at its end; and a subscribe to an
\* entity that has no log reads the empty sequence
C11_AppendOnlyLog ==
    /\ [](\A e \in Entities : getEventStream(e) = Appended(e))
    /\ [][ /\ \A e \in Entities : IsPrefix(getEventStream(e), getEventStream(e)')
           /\ \A r \in Subscribes :
                (StepOf(r, "read", "emit") /\ ~eventsFile[sock[r].entityId].exists) =>
                    sock'[r].events = <<>>
         ]_vars

\* two appends to A ran one after the other and the log of A holds both
\* events in order; B never had an append and its device was replayed nothing
C11_Witness ==
    /\ Len(getEventStream("A")) = 2
    /\ getEventStream("A")[1].id < getEventStream("A")[2].id
    /\ ~eventsFile["B"].exists
    /\ sent["c3"] = << ReplayMsg(<<>>) >>

----------------------------------------------------------------------------
(* Expiry and conflict *)

\* request h returns from consumeInvite/consumeShare with a record
ConsumeReturns(h) ==
    /\ h \in Consumes
    /\ http[h].pc = "consume_write"
    /\ http'[h].pc # "consume_write"

\* C12: a consume that retrieves a record past its expiresAt answers 410
\* (never 404 or 200) with a body that holds no sealed key, has written the
\* code map without the code, touches no shares.json, sends nothing and is
\* over; a consume answers 410 in no other case
C12_ExpiredConsume ==
    [][ \A h \in Consumes :
          /\ (ConsumeReturns(h) /\ http[h].record.expiresAt < now') =>
                /\ http'[h].pc = "done"
                /\ http'[h].status = 410
                /\ DOMAIN ResponseOf(http'[h]) = {"error"}
                /\ http[h].code \notin DOMAIN codeFiles'[FileOf(http[h].route)]
                /\ sharesFile' = sharesFile
                /\ sent' = sent
          /\ (http'[h].status = 410 /\ http[h].status # 410) =>
                /\ ConsumeReturns(h)
                /\ http[h].record.expiresAt < now'
      ]_vars

\* a share code created at time 0 was consumed at time 2, after its ttl: the
\* consume answered 410, the code is gone and no share was registered
C12_Witness ==
    \E h \in Consumes :
        /\ http[h].route = "shares/consume"
        /\ http[h].status = 410
        /\ http[h].record.entityId # http[h].entityId
        /\ http[h].code \notin DOMAIN codeFiles.shareMapFile
        /\ \A e \in Entities : ~sharesFile[e].exists


Creates ==
    {h \in DOMAIN http : http[h].route \in {"invites/create", "shares/create"}}

\* C13: a create request that finds its code pending is answered Conflict and
\* writes nothing, so the pending record stays as it is; and a create request
\* is answered 200 only if no record for its code existed when its record was
\* stored
C13_ConflictOnPending ==
    [][ /\ ( /\ Len(http') > Len(http)
             /\ Len(http') \in Creates'
             /\ Last(http').code \in DOMAIN codeFiles[FileOf(Last(http').route)] ) =>
                /\ Last(http').status = 409
                /\ codeFiles' = codeFiles
        /\ \A h \in Creates :
              (http[h].pc # "done" /\ http'[h].pc = "done" /\ http'[h].status = 200) =>
                 http[h].code \notin DOMAIN codeFiles[FileOf(http[h].route)]
      ]_vars


(* Self-share *)

NoSelfShare ==
    \A e \in Entities, p \in Props :
        OutgoingAt(sharesFile, e, e, p) = {} /\ IncomingAt(sharesFile, e, e, p) = {}

----------------------------------------------------------------------------
(* Backfill on consume *)

\* events.json of an entity after n appends
LogOf(n) ==
    IF n = 0 THEN NoFile
    ELSE [exists |-> TRUE,
          content |-> [i \in 1..n |-> [id |-> i, timestamp |-> 0, payload |-> "x"]]]

\* the server once A has appended some events and the clients have or have not
\* subscribed to their entity's room
InitBackfill ==
    /\ \E n \in 0..MaxLog :
          eventsFile = [e \in Entities |-> IF e = "A" THEN LogOf(n) ELSE NoFile]
    /\ sharesFile = [e \in Entities |-> NoFile]
    /\ rooms \in { [e \in Entities |-> {}],
                   [e \in Entities |-> {c \in Conns : EntityOf[c] = e}] }
    /\ sent = [c \in Conns |-> <<>>]
    /\ sock = <<>>
    /\ now = 0
    /\ codeFiles = [inviteMapFile |-> EmptyMap, shareMapFile |-> EmptyMap]
    /\ http = <<>>
    /\ sharedKeys = {}
    /\ queuedEvents = [e \in Entities |-> <<>>]
    /\ sharedData = <<>>
    /\ running = <<>>
    /\ received = <<>>
    /\ processed = <<>>
    /\ entityEvents = <<>>
    /\ entityState = Null
    /\ handled = 0

\* shares created and consumed while nothing is appended
NextBackfill ==
    \/ /\ Len(http) < MaxBackfill
       /\ \E e \in Entities, p \in Props, t \in 0..MaxClock :
             CreateCheck("shares/create", e, "X", p, t)
    \/ /\ Len(http) < MaxBackfill
       /\ \E e \in Entities : ConsumeRead("shares/consume", e, "X")
    \/ \E h \in 1..MaxBackfill :
          \/ CreateRead(h)
          \/ CreateWrite(h)
          \/ \E t \in 0..MaxClock : ConsumeWrite(h, t)
          \/ AddOutgoingRead(h)
          \/ AddOutgoingWrite(h)
          \/ AddIncomingRead(h)
          \/ AddIncomingWrite(h)
          \/ BackfillRead(h)
          \/ BackfillEmit(h)

SpecBackfill == InitBackfill /\ [][NextBackfill]_vars

BackfillEmitted(h) ==
    /\ h \in Consumes
    /\ http[h].pc = "backfill_emit"
    /\ http'[h].pc = "done"

\* C15: the step that ends a successful shares/consume sends every connection
\* in the target's room the last min(10, n) events of the source's log, oldest
\* first, each as a sharedEvent envelope of the source and the shared property,
\* and sends nothing to any other connection; no other step of a share route
\* sends anything, so a consume that fails sends nothing
C15_BoundedBackfill ==
    [][ /\ \A h \in Consumes :
              BackfillEmitted(h) =>
                 LET S == http[h].record.entityId
                     log == getEventStream(S)
                     n == Len(log)
                     k == IF n < 10 THEN n ELSE 10
                 IN /\ http'[h].status = 200
                    /\ \A c \in Conns :
                          NewMsgs(c) =
                             IF c \in rooms[http[h].entityId]
                             THEN [i \in 1..k |->
                                     SharedEventMsg(
                                        [sourceEntityId |-> S,
                                         propertyName |-> http[h].record.propertyName,
                                         event |-> log[n - k + i]])]
                             ELSE <<>>
        /\ sent' # sent => \E h \in Consumes : BackfillEmitted(h)
        /\ \A h \in Consumes :
              (http[h].pc # "done" /\ http'[h].pc = "done" /\ http'[h].status # 200) =>
                 sent' = sent
      ]_vars

C15_Witness ==
    \E h \in Consumes :
        /\ http[h].pc = "done"
        /\ http[h].status = 200
        /\ Len(getEventStream(http[h].record.entityId)) > 10
        /\ \E c \in rooms[http[h].entityId] :
              /\ Len(sent[c]) = 10
              /\ sent[c][1].body.event.id = Len(getEventStream(http[h].record.entityId)) - 9


----------------------------------------------------------------------------
(* Delivery of shared events, from the source's appends to the target's client *)

IsSharedEvent(m) == m.type = "sharedEvent"

\* the sharedEvent messages the server has emitted to connection c
SharedEventsSent(c) == SelectSeq(sent[c], IsSharedEvent)

\* socket.on("sharedEvent") of the client on connection c, for the next
\* envelope the server has emitted to it: queued without a key for its source,
\* else processSharedEvent starts
DeliverSharedEvent(c) ==
    /\ running = <<>>
    /\ Len(received) < Len(SharedEventsSent(c))
    /\ LET envelope == SharedEventsSent(c)[Len(received) + 1].body
           source == envelope.sourceEntityId
           hasKey == source \in sharedKeys
       IN /\ received' = Append(received, [envelope |-> envelope, hasKey |-> hasKey])
          /\ IF hasKey
             THEN /\ running' = << envelope >>
                  /\ UNCHANGED queuedEvents
             ELSE /\ queuedEvents' = [queuedEvents EXCEPT ![source] = Append(@, envelope)]
                  /\ UNCHANGED running
    /\ UNCHANGED <<sharedKeys, sharedData, processed, streamVars, serverVars>>

\* consumeShareMutation: the consume request has been answered 200 and the
\* client registers the key of the source
ConsumeShareRegisters ==
    \E h \in Consumes :
        /\ http[h].pc = "done"
        /\ http[h].status = 200
        /\ http[h].record.entityId \notin sharedKeys
        /\ RegisterSharedKey(http[h].record.entityId)

\* A has created share code X for p; B's client is in B's room
InitDelivery ==
    /\ eventsFile = [e \in Entities |-> NoFile]
    /\ sharesFile = [e \in Entities |-> NoFile]
    /\ rooms = [e \in Entities |-> IF e = "B" THEN {"c3"} ELSE {}]
    /\ sent = [c \in Conns |-> <<>>]
    /\ sock = <<>>
    /\ now = 0
    /\ codeFiles = [inviteMapFile |-> EmptyMap,
                    shareMapFile |->
                       Put(EmptyMap, "X",
                           [entityId |-> "A", propertyName |-> "p", sealed |-> 0,
                            expiresAt |-> DEFAULT_TTL_MS])]
    /\ http = <<>>
    /\ sharedKeys = {}
    /\ queuedEvents = [e \in Entities |-> <<>>]
    /\ sharedData = <<>>
    /\ running = <<>>
    /\ received = <<>>
    /\ processed = <<>>
    /\ entityEvents = <<>>
    /\ entityState = Null
    /\ handled = 0

\* A sets and deletes its properties, one append after the other, while B
\* consumes X and B's client handles what the server emits to it; storage does
\* not fail
NextDelivery ==
    \/ \E type \in {"PropertySet", "PropertyDeleted"}, key \in Props :
          /\ ~Appending("A")
          /\ AppendRead("c1", "A", [type |-> type, key |-> key], {key}, now)
    \/ \E r \in 1..MaxSock :
          \/ AppendWrite(r)
          \/ AppendBroadcast(r)
          \/ AppendGetShares(r)
          \/ AppendPropagate(r)
    \/ /\ Len(http) < MaxConsumes
       /\ ConsumeRead("shares/consume", "B", "X")
    \/ \E h \in 1..MaxConsumes :
          \/ ConsumeWrite(h, now)
          \/ AddOutgoingRead(h)
          \/ AddOutgoingWrite(h)
          \/ AddIncomingRead(h)
          \/ AddIncomingWrite(h)
          \/ BackfillRead(h)
          \/ BackfillEmit(h)
    \/ DeliverSharedEvent("c3")
    \/ ConsumeShareRegisters
    \/ ProcessSharedEvent

SpecDelivery == InitDelivery /\ [][NextDelivery]_vars

\* every envelope emitted to c3 has been received and processed
Settled ==
    /\ running = <<>>
    /\ Len(received) = Len(SharedEventsSent("c3"))
    /\ Len(processed) = Len(received)
    /\ \A h \in DOMAIN http : http[h].pc = "done"
    /\ \A r \in DOMAIN sock : sock[r].pc = "done"

\* the events of S concerning p that were delivered for (S, p)
DeliveredFor(S, p) ==
    {received[i].envelope.event : i \in
        {j \in DOMAIN received :
            /\ received[j].envelope.sourceEntityId = S
            /\ received[j].envelope.propertyName = p
            /\ received[j].envelope.event.payload.key = p}}

\* the position of an event in S's log
AppendOrder(S, event) ==
    CHOOSE i \in DOMAIN getEventStream(S) : getEventStream(S)[i] = event

EntriesFor(S, p) ==
    {i \in DOMAIN sharedData :
        sharedData[i].sourceEntityId = S /\ sharedData[i].propertyName = p}

\* C16: once every envelope delivered to B's client has been processed, the
\* sharedData entry for (A, p) is that of the delivered event that is last in
\* A's log: its value if it is a PropertySet, no entry if it is a
\* PropertyDeleted
C16_LatestByAppendOrder ==
    (Settled /\ DeliveredFor("A", "p") # {}) =>
        LET latest == CHOOSE e \in DeliveredFor("A", "p") :
                         \A other \in DeliveredFor("A", "p") :
                            AppendOrder("A", other) <= AppendOrder("A", e)
        IN IF latest.payload.type = "PropertySet"
           THEN \E i \in EntriesFor("A", "p") :
                   /\ EntriesFor("A", "p") = {i}
                   /\ sharedData[i].value = latest.id
           ELSE EntriesFor("A", "p") = {}


\* C17: B's client never holds both the key that decrypts A's events and an
\* event of A that concerns a property other than the shared one
C17_SinglePropertyExposed ==
    \A i \in DOMAIN received :
        LET envelope == received[i].envelope
        IN envelope.sourceEntityId \in sharedKeys =>
              envelope.event.payload.key = envelope.propertyName


----------------------------------------------------------------------------
(* What the clients send: plaintext, keys, and the boxes built from them *)

\* the values a property is set to
Values == {"v"}

\* the raw private key of an entity, held by its clients only
PrivateKeyOf(entityId) == [kind |-> "privateKey", entityId |-> entityId]

\* DecryptedEventContent {type, data}
ContentOf(type, key, value) ==
    [kind |-> "content", type |-> type,
     data |-> IF type = "PropertySet" THEN [key |-> key, value |-> value]
              ELSE [key |-> key, value |-> "none"]]

\* crypto_generichash(KEYBYTES, rawPrivateKey, "truetrace-entity-content")
deriveEntityContentKey(rawPrivateKey) ==
    [kind |-> "contentKey", entityId |-> rawPrivateKey.entityId]

\* the data sent as it is, in the place of the ciphertext
encryptJsonPlain(rawPrivateKey, data) == data

\* crypto_secretbox_easy(JSON.stringify(data), nonce, key): what is inside the
\* box is read with the key only
encryptJson(rawPrivateKey, data) ==
    [kind |-> "ciphertext", alg |-> "XSALSA20-POLY1305",
     key |-> deriveEntityContentKey(rawPrivateKey), plaintext |-> data]

\* crypto_secretbox_easy(rawPrivateKey, nonce, crypto_pwhash(inviteCode, salt))
sealPrivateKeyForInvite(rawPrivateKey, inviteCode) ==
    [kind |-> "sealed", alg |-> "XSALSA20-POLY1305", code |-> inviteCode,
     plaintext |-> rawPrivateKey]

\* the share key sealed under the share code
sealKeyForShare(key, shareCode) ==
    [kind |-> "sealed", alg |-> "XSALSA20-POLY1305", code |-> shareCode,
     plaintext |-> key]

\* no handler of the server is mid-execution
Idle ==
    /\ \A r \in DOMAIN sock : sock[r].pc = "done"
    /\ \A h \in DOMAIN http : http[h].pc = "done"

MayStart == Idle /\ Len(sock) + Len(http) < MaxWire

\* setProperty/deleteProperty -> appendEvent: encryptJson(entityKey, {type, data}),
\* socket.emit("append", {entityId, payload, propertyHints})
ClientAppend(c, type, key, value) ==
    AppendRead(c, EntityOf[c],
               encryptJson(PrivateKeyOf(EntityOf[c]), ContentOf(type, key, value)),
               {key}, now)

\* generateInviteMutation: sealPrivateKeyForInvite, createInvite(entityId, code, sealed)
ClientCreateInvite(entityId, code) ==
    CreateSealed("invites/create", entityId, code, "none",
                 sealPrivateKeyForInvite(PrivateKeyOf(entityId), code), now)

\* createShareMutation: sealKeyForShare, createShare(code, propertyName, sealedKey)
ClientCreateShare(entityId, code, propertyName) ==
    CreateSealed("shares/create", entityId, code, propertyName,
                 sealKeyForShare(PrivateKeyOf(entityId), code), now)

InitWire ==
    /\ eventsFile = [e \in Entities |-> NoFile]
    /\ sharesFile = [e \in Entities |-> NoFile]
    /\ rooms = [e \in Entities |-> {}]
    /\ sent = [c \in Conns |-> <<>>]
    /\ sock = <<>>
    /\ now = 0
    /\ codeFiles = [inviteMapFile |-> EmptyMap, shareMapFile |-> EmptyMap]
    /\ http = <<>>
    /\ sharedKeys = {}
    /\ queuedEvents = [e \in Entities |-> <<>>]
    /\ sharedData = <<>>
    /\ running = <<>>
    /\ received = <<>>
    /\ processed = <<>>
    /\ entityEvents = <<>>
    /\ entityState = Null
    /\ handled = 0

\* the clients send their messages one at a time, each after the server has
\* finished with the one before; storage does not fail
NextWire ==
    \/ /\ MayStart
       /\ \E c \in {"c1", "c3"} : Subscribe(c, EntityOf[c])
    \/ /\ MayStart
       /\ \E type \in {"PropertySet", "PropertyDeleted"}, key \in Props, value \in Values :
             ClientAppend("c1", type, key, value)
    \/ /\ MayStart
       /\ \E e \in Entities : ClientCreateInvite(e, "X")
    \/ /\ MayStart
       /\ ConsumeRead("invites/consume", "none", "X")
    \/ /\ MayStart
       /\ \E p \in Props : ClientCreateShare("A", "X", p)
    \/ /\ MayStart
       /\ \E e \in Entities : ConsumeRead("shares/consume", e, "X")
    \/ /\ MayStart
       /\ \E p \in Props : \/ RevokeRead("A", p, "B", "none")
                           \/ RevokeRead("B", p, "none", "A")
    \/ \E r \in 1..MaxWire :
          \/ SubscribeRead(r)
          \/ SubscribeReplay(r)
          \/ AppendWrite(r)
          \/ AppendBroadcast(r)
          \/ AppendGetShares(r)
          \/ AppendPropagate(r)
    \/ \E h \in 1..MaxWire :
          \/ CreateRead(h)
          \/ CreateWrite(h)
          \/ ConsumeWrite(h, now)
          \/ AddOutgoingRead(h)
          \/ AddOutgoingWrite(h)
          \/ AddIncomingRead(h)
          \/ AddIncomingWrite(h)
          \/ BackfillRead(h)
          \/ BackfillEmit(h)
          \/ RevokeWrite(h)
          \/ RevokeMirrorRead(h)
          \/ RevokeMirrorWrite(h)

SpecWire == InitWire /\ [][NextWire]_vars

\* a box: what it holds is read with its key only
Blind(x) == x.kind \in {"ciphertext", "sealed"}

\* the events a message of the server carries
EventsIn(m) ==
    IF m.type = "replay" THEN Range(m.body)
    ELSE IF m.type = "event" THEN {m.body}
    ELSE IF m.type = "sharedEvent" THEN {m.body.event}
    ELSE {}

Names == Entities \cup Codes \cup Props \cup {"none"}

\* C18: whatever the server is sent, stores or forwards is made of entity
\* identifiers, codes, property names, ciphertext payloads and code-sealed
\* boxes: no content of an event and no key is among them outside a box
C18_ServerBlind ==
    /\ \A r \in DOMAIN sock :
          /\ sock[r].entityId \in Entities
          /\ sock[r].propertyHints \subseteq Props
          /\ sock[r].kind = "append" =>
                /\ Blind(sock[r].payload)
                /\ \A i \in DOMAIN sock[r].events : Blind(sock[r].events[i].payload)
    /\ \A h \in DOMAIN http :
          /\ {http[h].entityId, http[h].code, http[h].propertyName,
              http[h].targetEntityId, http[h].sourceEntityId} \subseteq Names
          /\ http[h].record # NoRecord => Blind(http[h].record.sealed)
    /\ \A e \in Entities :
          /\ \A i \in DOMAIN getEventStream(e) : Blind(getEventStream(e)[i].payload)
          /\ \A i \in DOMAIN getShares(e).incoming :
                Blind(getShares(e).incoming[i].keyWrapped)
    /\ \A f \in DOMAIN codeFiles : \A code \in DOMAIN codeFiles[f] :
          Blind(codeFiles[f][code].sealed)
    /\ \A c \in Conns : \A i \in DOMAIN sent[c] :
          \A event \in EventsIn(sent[c][i]) : Blind(event.payload)

C18_Witness ==
    /\ \E i \in DOMAIN getEventStream("A") :
          getEventStream("A")[i].payload.plaintext.data.value \in Values
    /\ \E f \in DOMAIN codeFiles : \E code \in DOMAIN codeFiles[f] :
          codeFiles[f][code].sealed.plaintext = PrivateKeyOf("A")
    /\ \E i \in DOMAIN sent["c3"] : sent["c3"][i].type = "sharedEvent"


----------------------------------------------------------------------------
(* The client's own stream: replay, live events, and their reduction *)

\* the values the properties of the own stream are set to
StreamValues == {"v", "w"}

\* DecryptedEventContent: EntityCreated {entityId}, PropertySet {key, value},
\* PropertyDeleted {key}
StreamContents ==
    {[type |-> "EntityCreated", data |-> [entityId |-> e]] : e \in Entities}
    \cup {[type |-> "PropertySet", data |-> [key |-> k, value |-> v]] :
             k \in Props, v \in StreamValues}
    \cup {[type |-> "PropertyDeleted", data |-> [key |-> k]] : k \in Props}

\* decryptEvent: {id, timestamp, type, data}; the n-th event of the stream
EntityEvent(n, content) ==
    [id |-> n, timestamp |-> n, type |-> content.type, data |-> content.data]

\* the switch with a PropertySet that keeps the value a key already has
reduceEventKeeping(state, event) ==
    IF event.type = "EntityCreated"
    THEN [state EXCEPT !.entityId = event.data.entityId]
    ELSE IF event.type = "PropertySet"
    THEN IF event.data.key \in DOMAIN state.properties THEN state
         ELSE [state EXCEPT !.properties = Put(@, event.data.key, event.data.value)]
    ELSE IF event.type = "PropertyDeleted"
    THEN [state EXCEPT !.properties = Delete(@, event.data.key)]
    ELSE state

\* the body of reduceEvents' switch
reduceEvent(state, event) ==
    IF event.type = "EntityCreated"
    THEN [state EXCEPT !.entityId = event.data.entityId]
    ELSE IF event.type = "PropertySet"
    THEN [state EXCEPT !.properties = Put(@, event.data.key, event.data.value)]
    ELSE IF event.type = "PropertyDeleted"
    THEN [state EXCEPT !.properties = Delete(@, event.data.key)]
    ELSE state

RECURSIVE reduceLoop(_, _)
\* for (const event of events)
reduceLoop(state, events) ==
    IF events = <<>> THEN state
    ELSE reduceLoop(reduceEvent(state, Head(events)), Tail(events))

\* the reduction returning its state whether or not entityId was set
reduceEventsDefined(events) ==
    reduceLoop([entityId |-> "", properties |-> EmptyMap], events)

\* reduceEvents: null for no events and for a state without entityId
reduceEvents(events) ==
    IF Len(events) = 0 THEN Null
    ELSE LET state == reduceLoop([entityId |-> "", properties |-> EmptyMap], events)
         IN IF state.entityId # "" THEN state ELSE Null

\* socket.on("replay"): setEvents(decrypted), setState(reduceEvents(decrypted))
OnReplay(contents) ==
    /\ LET decrypted == [i \in DOMAIN contents |-> EntityEvent(i, contents[i])]
       IN /\ entityEvents' = decrypted
          /\ entityState' = reduceEvents(decrypted)
    /\ UNCHANGED <<handled, sharingVars, serverVars>>

\* the state reduced from the new event alone
OnEventAlone(content) ==
    /\ Len(entityEvents) < MaxStream
    /\ LET decrypted == EntityEvent(Len(entityEvents) + 1, content)
       IN /\ entityEvents' = Append(entityEvents, decrypted)
          /\ entityState' = reduceEvents(<< decrypted >>)
    /\ UNCHANGED <<handled, sharingVars, serverVars>>

\* socket.on("event"): updated = [...prev, decrypted], setState(reduceEvents(updated))
OnEvent(content) ==
    /\ Len(entityEvents) < MaxStream
    /\ LET decrypted == EntityEvent(Len(entityEvents) + 1, content)
           updated == Append(entityEvents, decrypted)
       IN /\ entityEvents' = updated
          /\ entityState' = reduceEvents(updated)
    /\ UNCHANGED <<handled, sharingVars, serverVars>>

\* the client is sent a replay, then events one by one (and a replay again
\* when it reconnects)
NextReduce ==
    \/ \E n \in 0..MaxReplay : \E contents \in [1..n -> StreamContents] :
          OnReplay(contents)
    \/ \E content \in StreamContents : OnEvent(content)

SpecReduce == Init /\ [][NextReduce]_vars

\* the step adds one event at the end of the client's events
Extends ==
    /\ Len(entityEvents') = Len(entityEvents) + 1
    /\ SubSeq(entityEvents', 1, Len(entityEvents)) = entityEvents

Created(events) == {i \in DOMAIN events : events[i].type = "EntityCreated"}

\* C20: the entityId of the reduced state is that of the first EntityCreated
\* event of the stream, whatever EntityCreated events follow it
C20_FirstEntityCreatedSeeds ==
    (Created(entityEvents) # {} /\ entityState # Null) =>
        LET first == CHOOSE i \in Created(entityEvents) :
                        \A j \in Created(entityEvents) : i <= j
        IN entityState.entityId = entityEvents[first].data.entityId


\* the positions of the events that concern key k
Concerning(events, k) ==
    {i \in DOMAIN events :
        /\ events[i].type \in {"PropertySet", "PropertyDeleted"}
        /\ events[i].data.key = k}

Max(S) == CHOOSE i \in S : \A j \in S : j <= i

\* C21: for a stream with an EntityCreated the reduced properties are
\* last-write-wins by position: k is present, with value v, exactly when the
\* last event concerning k is PropertySet{k, v}; a key no event concerns, or
\* whose last event is a PropertyDeleted, is absent
C21_LastWriteWins ==
    Created(entityEvents) # {} =>
        /\ entityState # Null
        /\ \A k \in Props :
              LET on == Concerning(entityEvents, k)
              IN IF on # {} /\ entityEvents[Max(on)].type = "PropertySet"
                 THEN /\ k \in DOMAIN entityState.properties
                      /\ entityState.properties[k] = entityEvents[Max(on)].data.value
                 ELSE k \notin DOMAIN entityState.properties

C21_Witness ==
    /\ Created(entityEvents) # {}
    /\ \E i, j \in Concerning(entityEvents, "p") :
          /\ i < j
          /\ j = Max(Concerning(entityEvents, "p"))
          /\ entityEvents[i].type = "PropertySet"
          /\ entityEvents[j].type = "PropertySet"
          /\ entityEvents[i].data.value # entityEvents[j].data.value
          /\ entityState.properties["p"] = entityEvents[j].data.value
    /\ \E i \in Concerning(entityEvents, "q") :
          /\ i = Max(Concerning(entityEvents, "q"))
          /\ entityEvents[i].type = "PropertyDeleted"
          /\ "q" \notin DOMAIN entityState.properties


\* C22: the reduced state is null exactly when the client's events hold no
\* EntityCreated: null for no events and for events without one, a state for
\* events with one
C22_NullUntilCreated ==
    (entityState = Null) <=> (Created(entityEvents) = {})

C22_Witness ==
    /\ Len(entityEvents) = MaxStream
    /\ Created(entityEvents) = {}
    /\ entityState = Null
    /\ \E i \in DOMAIN entityEvents : entityEvents[i].type = "PropertySet"


----------------------------------------------------------------------------
(* The own stream end to end: appends, subscribe and replay, the client's events *)

\* what decryptJson's crypto_secretbox_open_easy gives when it throws
DecryptFails == [kind |-> "failure"]

\* crypto_secretbox_open_easy(ciphertext, nonce, key), JSON.parse
decryptJson(rawPrivateKey, payload) ==
    IF payload.kind = "ciphertext" /\ payload.key = deriveEntityContentKey(rawPrivateKey)
    THEN payload.plaintext
    ELSE DecryptFails

\* decryptEvent: {id, timestamp, type, data}, or null when decryptJson throws
decryptEvent(rawPrivateKey, encrypted) ==
    LET content == decryptJson(rawPrivateKey, encrypted.payload)
    IN IF content = DecryptFails THEN Null
       ELSE [id |-> encrypted.id, timestamp |-> encrypted.timestamp,
             type |-> content.type, data |-> content.data]

NotNull(x) == x # Null

\* the replayed events from the newest to the oldest
decryptEventsNewestFirst(rawPrivateKey, encryptedEvents) ==
    SelectSeq([i \in DOMAIN encryptedEvents |->
                 decryptEvent(rawPrivateKey,
                              encryptedEvents[Len(encryptedEvents) + 1 - i])], NotNull)

\* decryptEvents: Promise.all(map(decryptEvent)), then filter(e => e !== null)
decryptEvents(rawPrivateKey, encryptedEvents) ==
    SelectSeq([i \in DOMAIN encryptedEvents |->
                 decryptEvent(rawPrivateKey, encryptedEvents[i])], NotNull)

\* the next message the client on connection c has to handle
NextMessage(c) == sent[c][handled + 1]

\* socket.on("replay") for the next message of connection c
HandleReplay(c) ==
    /\ handled < Len(sent[c])
    /\ NextMessage(c).type = "replay"
    /\ LET decrypted == decryptEvents(PrivateKeyOf(EntityOf[c]), NextMessage(c).body)
       IN /\ entityEvents' = decrypted
          /\ entityState' = reduceEvents(decrypted)
    /\ handled' = handled + 1
    /\ UNCHANGED <<sharingVars, serverVars>>

\* socket.on("event") for the next message of connection c
HandleEvent(c) ==
    /\ handled < Len(sent[c])
    /\ NextMessage(c).type = "event"
    /\ LET decrypted == decryptEvent(PrivateKeyOf(EntityOf[c]), NextMessage(c).body)
           updated == Append(entityEvents, decrypted)
       IN IF decrypted # Null
          THEN /\ entityEvents' = updated
               /\ entityState' = reduceEvents(updated)
          ELSE UNCHANGED <<entityEvents, entityState>>
    /\ handled' = handled + 1
    /\ UNCHANGED <<sharingVars, serverVars>>

\* the vault's first event of a new entity: appendEvent({type: "EntityCreated",
\* data: {entityId}}) without propertyHints
ClientCreateEntity(c) ==
    AppendRead(c, EntityOf[c],
               encryptJson(PrivateKeyOf(EntityOf[c]),
                           [kind |-> "content", type |-> "EntityCreated",
                            data |-> [entityId |-> EntityOf[c]]]),
               {}, now)

\* no socket handler is mid-execution
SockIdle == \A r \in DOMAIN sock : sock[r].pc = "done"

\* A's first client appends, A's second client subscribes, each message sent
\* when the server has finished with the one before; storage does not fail
NextReplay ==
    \/ SockIdle /\ getEventStream("A") = <<>> /\ ClientCreateEntity("c1")
    \/ /\ SockIdle
       /\ \E type \in {"PropertySet", "PropertyDeleted"}, value \in Values :
             ClientAppend("c1", type, "p", value)
    \/ SockIdle /\ Subscribe("c2", "A")
    \/ \E r \in 1..MaxSock :
          \/ SubscribeRead(r)
          \/ SubscribeReplay(r)
          \/ AppendWrite(r)
          \/ AppendBroadcast(r)
          \/ AppendGetShares(r)
          \/ AppendPropagate(r)
    \/ HandleReplay("c2")
    \/ HandleEvent("c2")

SpecReplay == InitWire /\ [][NextReplay]_vars

\* the properties are those the events describe: each key with the value of
\* its last PropertySet, unless a PropertyDeleted of the key follows it
Describes(events, properties) ==
    \A k \in Props :
        LET on == Concerning(events, k)
        IN IF on # {} /\ events[Max(on)].type = "PropertySet"
           THEN k \in DOMAIN properties /\ properties[k] = events[Max(on)].data.value
           ELSE k \notin DOMAIN properties

\* the client on c2 handles a replay in this step
HandlesReplay ==
    /\ handled' = handled + 1
    /\ NextMessage("c2").type = "replay"

\* the replay a subscribe after the appends emits is the log, which is the
\* appended events, and the client's events are then the replayed ones
ReplayIsLog ==
    /\ \A r \in Subscribes :
          StepOf(r, "emit", "done") =>
             /\ NewMsgs(sock[r].conn) = << ReplayMsg(getEventStream(sock[r].entityId)) >>
             /\ getEventStream(sock[r].entityId) = Appended(sock[r].entityId)
    /\ HandlesReplay =>
          /\ Len(entityEvents') = Len(NextMessage("c2").body)
          /\ \A i \in DOMAIN entityEvents' :
                entityEvents'[i].id = NextMessage("c2").body[i].id

\* the replay in hand is the single event PropertySet{p, v}
SinglePropertySet ==
    /\ Len(NextMessage("c2").body) = 1
    /\ decryptEvent(PrivateKeyOf("A"), NextMessage("c2").body[1]).type = "PropertySet"

\* C23 as stated: a client subscribing after A's appends is replayed exactly
\* the appended events and, if there are any, its reduced state has the
\* properties they describe;
\* for the log of the single PropertySet{p, v} the properties are {p: v}
C23_ReplayReduced ==
    [][ /\ ReplayIsLog
        /\ (HandlesReplay /\ NextMessage("c2").body # <<>>) =>
              /\ entityState' # Null
              /\ Describes(entityEvents', entityState'.properties)
              /\ SinglePropertySet =>
                    /\ DOMAIN entityState'.properties = {"p"}
                    /\ entityState'.properties["p"] = entityEvents'[1].data.value
      ]_vars

\* C23 as the code has it: the same replay and the same events; the reduced
\* state has the properties the events describe when an EntityCreated is among
\* them and is null otherwise, so it is null for the log of the single
\* PropertySet{p, v}
C23_ReplayReducedOnceCreated ==
    [][ /\ ReplayIsLog
        /\ HandlesReplay =>
              /\ Created(entityEvents') # {} =>
                    /\ entityState' # Null
                    /\ Describes(entityEvents', entityState'.properties)
              /\ Created(entityEvents') = {} => entityState' = Null
              /\ SinglePropertySet => entityState' = Null
      ]_vars

C23_Witness ==
    /\ handled = 1
    /\ sent["c2"][1].type = "replay"
    /\ Len(sent["c2"][1].body) = 1
    /\ getEventStream("A") = sent["c2"][1].body
    /\ Len(entityEvents) = 1
    /\ entityEvents[1].type = "PropertySet"
    /\ entityEvents[1].data = [key |-> "p", value |-> "v"]
    /\ entityState = Null


\* an append whose payload A's key does not open (the server takes any payload)
AppendUndecryptable(c) ==
    AppendRead(c, "A", encryptJson(PrivateKeyOf("B"), ContentOf("PropertySet", "p", "v")),
               {"p"}, now)

\* A's first client appends, one append after the other, and A's second client
\* subscribes, in any interleaving of the handlers' steps and of the client's
\* handling of what it is sent; storage does not fail
NextStream ==
    \/ /\ ~Appending("A")
       /\ getEventStream("A") = <<>>
       /\ ClientCreateEntity("c1")
    \/ /\ ~Appending("A")
       /\ \E type \in {"PropertySet", "PropertyDeleted"}, value \in Values :
             ClientAppend("c1", type, "p", value)
    \/ /\ ~Appending("A")
       /\ AppendUndecryptable("c1")
    \/ Subscribe("c2", "A")
    \/ \E r \in 1..MaxSock :
          \/ SubscribeRead(r)
          \/ SubscribeReplay(r)
          \/ AppendWrite(r)
          \/ AppendBroadcast(r)
          \/ AppendGetShares(r)
          \/ AppendPropagate(r)
    \/ HandleReplay("c2")
    \/ HandleEvent("c2")

SpecStream == InitWire /\ [][NextStream]_vars

\* the replay in hand holds an event the client's key does not open
ReplayFailsToDecrypt ==
    \E i \in DOMAIN NextMessage("c2").body :
        decryptEvent(PrivateKeyOf("A"), NextMessage("c2").body[i]) = Null

\* C24: when an event of a replay fails to decrypt, the client does not go on
\* to present the events and the state of the remaining events: it keeps what
\* it had, or has no state
C24_CryptoFailureSurfaced ==
    [][ (HandlesReplay /\ ReplayFailsToDecrypt) =>
           \/ UNCHANGED <<entityEvents, entityState>>
           \/ entityState' = Null
      ]_vars


\* the ids of a sequence of events, in order
IdsOf(events) == [i \in DOMAIN events |-> events[i].id]

\* C25: when c2 is subscribed to A, no handler of the server is mid-execution,
\* the client on c2 has handled every message sent to it and A's key opens
\* every event of A's log, the client's events are the events of the log, in
\* the log's order, each once
C25_ClientConvergesToLog ==
    ( /\ "c2" \in rooms["A"]
      /\ SockIdle
      /\ handled = Len(sent["c2"])
      /\ \A i \in DOMAIN getEventStream("A") :
            decryptEvent(PrivateKeyOf("A"), getEventStream("A")[i]) # Null )
    => IdsOf(entityEvents) = IdsOf(getEventStream("A"))


----------------------------------------------------------------------------
(* A created code stays pending *)

\* request k takes a step
Steps(k) == k \in DOMAIN http /\ http'[k] # http[k]

\* the record of create request h, answered 200, is pending under its code
PendingFrom(h, files) ==
    /\ http[h].code \in DOMAIN files[FileOf(http[h].route)]
    /\ files[FileOf(http[h].route)][http[h].code] = http[h].record

\* C26: the record of a create request answered 200 stays pending under its
\* code in every step of a request on another code: only a request on the
\* same code takes it out of the registry or replaces it
C26_CreatedCodeNotLost ==
    [][ \A h \in Creates :
           ( /\ http[h].pc = "done"
             /\ http[h].status = 200
             /\ PendingFrom(h, codeFiles)
             /\ ~PendingFrom(h, codeFiles') ) =>
                \E k \in DOMAIN http : Steps(k) /\ http[k].code = http[h].code
      ]_vars


----------------------------------------------------------------------------
(* An append and its error reply *)

\* the server has sent "Failed to append event" for append r
AppendErrored(r) == r \in Appends /\ sock[r].error # "none"

\* the event of append r is in the log of its entity
Stored(r) == sock[r].savedEvent \in Range(getEventStream(sock[r].entityId))

\* the event of append r has been emitted to some connection
Broadcast(r) ==
    \E c \in Conns : MsgPositions(sent[c], "event", sock[r].savedEvent) # {}

\* C27: an append for which the server has sent an error to the requesting
\* connection has stored no event in the entity's log and has broadcast none
C27_ErrorMeansNothingStored ==
    \A r \in DOMAIN sock : AppendErrored(r) => ~Stored(r) /\ ~Broadcast(r)


----------------------------------------------------------------------------
(* Revocation and propagation *)

\* bound on the number of HTTP requests while a share is revoked
MaxRevoke == 3

\* A has shared p with B, by completed create and consume requests
InitRevoke ==
    /\ eventsFile = [e \in Entities |-> NoFile]
    /\ sharesFile \in {s \in InitialShares : s["A"].exists}
    /\ rooms = [e \in Entities |-> {}]
    /\ sent = [c \in Conns |-> <<>>]
    /\ sock = <<>>
    /\ now = 0
    /\ codeFiles = [inviteMapFile |-> EmptyMap, shareMapFile |-> EmptyMap]
    /\ http = <<>>
    /\ sharedKeys = {}
    /\ queuedEvents = [e \in Entities |-> <<>>]
    /\ sharedData = <<>>
    /\ running = <<>>
    /\ received = <<>>
    /\ processed = <<>>
    /\ entityEvents = <<>>
    /\ entityState = Null
    /\ handled = 0

\* a shares/revoke request for the share of p from A to B has answered
\* {removed: true}
RevokeCompleted ==
    \E h \in Revokes :
        /\ http[h].pc = "done"
        /\ http[h].removed
        /\ http[h].propertyName = "p"

\* A revokes its share of p with B, or B revokes it, while A shares q with B
\* as well; B's device listens; A's device sets p once a revoke has completed
NextRevoke ==
    \/ /\ Len(http) < MaxRevoke
       /\ CreateCheck("shares/create", "A", "Y", "q", now)
    \/ /\ Len(http) < MaxRevoke
       /\ ConsumeRead("shares/consume", "B", "Y")
    \/ /\ Len(http) < MaxRevoke
       /\ Revokes = {}
       /\ RevokeRead("A", "p", "B", "none")
    \/ /\ Len(http) < MaxRevoke
       /\ Revokes = {}
       /\ RevokeRead("B", "p", "none", "A")
    \/ \E h \in 1..MaxRevoke :
          \/ CreateRead(h)
          \/ CreateWrite(h)
          \/ ConsumeWrite(h, now)
          \/ AddOutgoingRead(h)
          \/ AddOutgoingWrite(h)
          \/ AddIncomingRead(h)
          \/ AddIncomingWrite(h)
          \/ BackfillRead(h)
          \/ BackfillEmit(h)
          \/ RevokeWrite(h)
          \/ RevokeMirrorRead(h)
          \/ RevokeMirrorWrite(h)
    \/ /\ rooms["B"] = {}
       /\ Subscribe("c3", "B")
    \/ /\ RevokeCompleted
       /\ Appends = {}
       /\ AppendRead("c1", "A", "x", {"p"}, now)
    \/ \E r \in 1..MaxSock :
          \/ SubscribeRead(r)
          \/ SubscribeReplay(r)
          \/ AppendWrite(r)
          \/ AppendBroadcast(r)
          \/ AppendGetShares(r)
          \/ AppendPropagate(r)

SpecRevoke == InitRevoke /\ [][NextRevoke]_vars

\* a share of p from S to T has been consumed since the model's first state
ConsumedAgain(S, T, p) ==
    \E h \in Consumes :
        /\ http[h].entityId = T
        /\ http[h].record.entityId = S
        /\ http[h].record.propertyName = p

\* C28: every append to A starts after a revoke of the share of p from A to B
\* has completed; unless a new share of p from A to B is consumed, no
\* sharedEvent envelope for (A, p) is emitted to a connection of B's room
C28_RevokeStopsPropagation ==
    ~ConsumedAgain("A", "B", "p") =>
        \A c \in rooms["B"] : \A i \in DOMAIN sent[c] :
            ~ ( /\ sent[c][i].type = "sharedEvent"
                /\ sent[c][i].body.sourceEntityId = "A"
                /\ sent[c][i].body.propertyName = "p" )


----------------------------------------------------------------------------
(* A rejected self-share *)

\* C29: a shares/consume request answered 400, the caller being the source
\* entity of the share, leaves the share map as it was, with the share code
\* pending in it
C29_RejectedSelfShareKeepsCode ==
    [][ \A h \in Consumes :
           (ConsumeReturns(h) /\ http'[h].status = 400) =>
               /\ codeFiles' = codeFiles
               /\ http[h].code \in DOMAIN codeFiles'.shareMapFile
      ]_vars


----------------------------------------------------------------------------
(* Removing one incoming share *)

\* what decryptJson finds in the payload of a shared event of A: a PropertySet
\* or PropertyDeleted of either property
SharedContents == [type : {"PropertySet", "PropertyDeleted"}, key : Props]

\* revokeShareMutation with params.sourceEntityId, after revokeShare answered
\* {removed: true}: eventStream.unregisterSharedKey(params.sourceEntityId),
\* whatever params.propertyName is
RevokeIncomingShare(sourceEntityId) == UnregisterSharedKey(sourceEntityId)

\* B's client while A shares p and q with it: envelopes of both properties
\* arrive, A's key is registered or fails to open, B removes one of the shares
NextUnshare ==
    \/ \E p \in Props, content \in SharedContents :
          ReceiveSharedEvent("A", p, content)
    \/ RegisterSharedKey("A")
    \/ RegisterSharedKeyFails("A")
    \/ ProcessSharedEvent
    \/ RevokeIncomingShare("A")

SpecUnshare == Init /\ [][NextUnshare]_vars

\* the values shown for the properties of S other than p
OtherValues(data, S, p) ==
    LET other(s) == s.sourceEntityId = S /\ s.propertyName # p
    IN SelectSeq(data, other)

\* the client takes something of S away outside the processing of an envelope
Unshares(S) ==
    /\ received' = received
    /\ processed' = processed
    /\ S \in sharedKeys
    /\ <<sharedKeys, queuedEvents[S], sharedData>>' #
          <<sharedKeys, queuedEvents[S], sharedData>>

\* C30: when the client removes an incoming share of S, for some property p,
\* the key registered for S and the queue of S stay, and so do the values
\* shown for the other properties of S
C30_OtherSharesUntouched ==
    [][ \A S \in Entities :
           Unshares(S) =>
              /\ S \in sharedKeys'
              /\ queuedEvents'[S] = queuedEvents[S]
              /\ \E p \in Props :
                    OtherValues(sharedData', S, p) = OtherValues(sharedData, S, p)
      ]_vars

====
